---- MODULE Spec2Model ----
(***************************************************************************)
(* A model of the `transient` crate: the erasure wrappers of               *)
(* src/src/erased.rs (Erased, ErasedRef, ErasedMut), the dynamic interface *)
(* exercised by src/src/tests.rs and the derive generator of               *)
(* src/derive/src/lib.rs.                                                  *)
(*                                                                         *)
(* Regions (lifetimes) are scope depths: region 0 is 'static, region k is  *)
(* the k-th nested scope of the caller.  Region a outlives region b iff    *)
(* a <= b.  A region is live while the caller is at depth >= that region.  *)
(***************************************************************************)
EXTENDS Integers, Sequences, FiniteSets, TLC

\* ------------------------------------------------------------------ bounds
MaxDepth == 1
MaxData == 2
MaxFails == 2

\* --------------------------------------------------------------- constants
\* the 'static region (static_lifetime() of the generator, 'static of erased.rs)
STATIC == 0

Regions == 0..MaxDepth
Data == 1..MaxData

\* a outlives b ('a: 'b)
Outlives(a, b) == a <= b

\* The erasable types of the wrappers: S<'a> (tests.rs basic::S), SS<'a> =
\* S<'a, String> (tests.rs generics::SS) and String (no lifetime parameter).
TypeNames == {"S", "SS", "String"}

\* Does the declaration carry a lifetime parameter?
HasLifetime(name) == name \in {"S", "SS"}

\* T: MakeStatic<'src>: the generated impl is `impl<'a> MakeStatic<'a> for
\* S<'a>` for a type with a lifetime and `impl MakeStatic<'static> for S`
\* for a type without one.
MakeStaticImpl(name, src) == HasLifetime(name) \/ src = STATIC

\* A type is a name and the region of its lifetime parameter.
Types == {t \in [name : TypeNames, rg : Regions] : MakeStaticImpl(t.name, t.rg)}

\* A typed value is a type and its data.
Values == {v \in [name : TypeNames, rg : Regions, data : Data] :
             MakeStaticImpl(v.name, v.rg)}

TypeOf(v) == [name |-> v.name, rg |-> v.rg]

\* A Static that keeps the region of T.
Static_keeps_region(T) == T

\* type Static = S<'static>
Static(T) == [T EXCEPT !.rg = STATIC]

\* std::any::TypeId::of::<T>(): one id per type; S<'a> and S<'static> are
\* different types.
TypeIdOf(T) == <<T.name, T.rg>>

\* MakeStatic::make_static_owned / make_static_ref / make_static_mut: the
\* value reinterpreted at its Static type (widen).
make_static(v) == [v EXCEPT !.rg = Static(TypeOf(v)).rg]

\* MakeStatic::from_static_owned / from_static_ref / from_static_mut: the
\* static value reinterpreted at type T (narrow).
from_static(T, s) == [s EXCEPT !.rg = T.rg]

\* <dyn Any>::type_id and <dyn Any>::is::<U>()
any_type_id(any) == TypeIdOf(TypeOf(any))
any_is(any, U) == any_type_id(any) = TypeIdOf(U)

\* Box<dyn Any>::downcast::<U>() / downcast_ref / downcast_mut
any_downcast(any, U) == [ok |-> any_is(any, U), val |-> any]

\* ------------------------------------------------------------- the wrappers
NoValue == [name |-> "none", rg |-> STATIC, data |-> 0]
NoType == [name |-> "none", rg |-> STATIC]
NoWrapper == [kind |-> "none", any |-> NoValue, src |-> STATIC, borrow |-> STATIC]

\* struct Erased<'src>(Box<dyn Any>, PhantomData<&'src ()>)
Erased(any, src) == [kind |-> "Erased", any |-> any, src |-> src, borrow |-> src]

\* struct ErasedRef<'borrow, 'src: 'borrow>(&'borrow dyn Any, PhantomData<&'src ()>)
ErasedRef(any, borrow, src) ==
    [kind |-> "ErasedRef", any |-> any, src |-> src, borrow |-> borrow]

\* struct ErasedMut<'borrow, 'src: 'borrow>(&'borrow mut dyn Any, PhantomData<&'src ()>)
ErasedMut(any, borrow, src) ==
    [kind |-> "ErasedMut", any |-> any, src |-> src, borrow |-> borrow]

\* The result of an operation: Ok(val) in the given form ("owned", "box",
\* "ref", "mut", the Box<dyn Any> "dyn", the &dyn Any / &mut dyn Any
\* "dynref"), Err(w), or a panic.
Ok(val, form) == [ok |-> TRUE, val |-> val, form |-> form, w |-> NoWrapper, panic |-> FALSE]
Err(w) == [ok |-> FALSE, val |-> NoValue, form |-> "none", w |-> w, panic |-> FALSE]
Panic == [ok |-> FALSE, val |-> NoValue, form |-> "none", w |-> NoWrapper, panic |-> TRUE]

\* Erased::new that boxes the value as it is, without make_static_owned.
Erased_new_unwidened(value) == Erased(value, value.rg)

\* Erased::new<T: MakeStatic<'src>>(value: T), with 'src the region of T
Erased_new(value) == Erased(make_static(value), value.rg)

\* Erased::from_boxed<T: MakeStatic<'src>>(boxed: Box<T>)
Erased_from_boxed(boxed) == Erased(make_static(boxed), boxed.rg)

\* Erased::restore_box that drops the box a failed downcast hands back.
Erased_restore_box_lossy(self, T) ==
    LET restored == any_downcast(self.any, Static(T))
    IN  IF restored.ok
        THEN Ok(from_static(T, restored.val), "box")
        ELSE Err(Erased(NoValue, self.src))

\* Erased::restore_box<T: MakeStatic<'src>>(self) -> Result<Box<T>, Self>
Erased_restore_box(self, T) ==
    LET restored == any_downcast(self.any, Static(T))
    IN  IF restored.ok
        THEN Ok(from_static(T, restored.val), "box")
        ELSE Err(Erased(restored.val, self.src))

\* Erased::restore<T: MakeStatic<'src>>(self) -> Result<T, Self>
Erased_restore(self, T) ==
    LET r == Erased_restore_box(self, T)
    IN  IF r.ok THEN Ok(r.val, "owned") ELSE r

\* Erased::type_id(&self)
Erased_type_id(self) == any_type_id(self.any)

\* Erased::is<T: MakeStatic<'src>>(&self)
Erased_is(self, T) == any_is(self.any, Static(T))

\* ErasedRef::new<T: MakeStatic<'src>>(value: &'borrow T)
ErasedRef_new(value, borrow) == ErasedRef(make_static(value), borrow, value.rg)

\* ErasedRef::restore<T: MakeStatic<'src>>(self) -> Result<&'borrow T, Self>
ErasedRef_restore(self, T) ==
    LET restored == any_downcast(self.any, Static(T))
    IN  IF restored.ok
        THEN Ok(from_static(T, restored.val), "ref")
        ELSE Err(self)

\* ErasedRef::type_id(&self)
ErasedRef_type_id(self) == any_type_id(self.any)

\* ErasedRef::is<T: MakeStatic<'src>>(&self)
ErasedRef_is(self, T) == any_is(self.any, Static(T))

\* ErasedMut::new<T: MakeStatic<'src>>(value: &'borrow mut T)
ErasedMut_new(value, borrow) == ErasedMut(make_static(value), borrow, value.rg)

\* ErasedMut::type_id(&self)
ErasedMut_type_id(self) == any_type_id(self.any)

\* ErasedMut::is answering true for every type.
ErasedMut_is_any(self, T) == TRUE

\* ErasedMut::is<T: MakeStatic<'src>>(&self)
ErasedMut_is(self, T) == any_is(self.any, Static(T))

\* ErasedMut::restore without the type check.
ErasedMut_restore_unchecked(self, T) == Ok(from_static(T, self.any), "mut")

\* ErasedMut::restore<T: MakeStatic<'src>>(self) -> Result<&'borrow mut T, Self>
ErasedMut_restore(self, T) ==
    IF ErasedMut_is(self, T)
    THEN LET restored == any_downcast(self.any, Static(T))
         IN  IF restored.ok
             THEN Ok(from_static(T, restored.val), "mut")
             ELSE Panic \* .unwrap() of None
    ELSE Err(self)

\* impl From<Box<dyn Any>> for Erased<'static>
Erased_from(value) == Erased(value, STATIC)

\* impl From<&'borrow dyn Any> / From<&'borrow mut dyn Any> for ErasedRef<'borrow, 'static>
ErasedRef_from(value, borrow) == ErasedRef(value, borrow, STATIC)

\* impl From<&'borrow mut dyn Any> for ErasedMut<'borrow, 'static>
ErasedMut_from(value, borrow) == ErasedMut(value, borrow, STATIC)

\* inner() implemented for every 'src.
HasInner_any_src(self) == TRUE

\* The methods of `impl Erased<'static>`, `impl ErasedRef<'borrow, 'static>`
\* and `impl ErasedMut<'borrow, 'static>`: which wrapper types have them.
HasInner(self) == self.src = STATIC
HasInnerMut(self) == self.kind \in {"Erased", "ErasedMut"} /\ self.src = STATIC
HasIntoInner(self) == self.kind = "Erased" /\ self.src = STATIC

\* inner(&self) -> &dyn Any, inner_mut(&mut self) -> &mut dyn Any
inner(self) == self.any
\* into_inner(self) -> Box<dyn Any>
into_inner(self) == self.any

\* The dispatch of the three wrappers' methods on the wrapper's kind.
restore(self, T) ==
    CASE self.kind = "Erased" -> Erased_restore(self, T)
      [] self.kind = "ErasedRef" -> ErasedRef_restore(self, T)
      [] self.kind = "ErasedMut" -> ErasedMut_restore(self, T)

type_id(self) ==
    CASE self.kind = "Erased" -> Erased_type_id(self)
      [] self.kind = "ErasedRef" -> ErasedRef_type_id(self)
      [] self.kind = "ErasedMut" -> ErasedMut_type_id(self)

is(self, T) ==
    CASE self.kind = "Erased" -> Erased_is(self, T)
      [] self.kind = "ErasedRef" -> ErasedRef_is(self, T)
      [] self.kind = "ErasedMut" -> ErasedMut_is(self, T)

\* No wrapper is Copy: every restore moves the wrapper out of the variable.
IsCopy_none(self) == FALSE

\* #[derive(Debug, Clone, Copy)] struct ErasedRef: the one wrapper that is Copy
IsCopy(self) == self.kind = "ErasedRef"

\* A wrapper type that does not name its regions.
Bound_unbounded(self) == STATIC

\* The region that bounds how long a handle of the wrapper's type may be held:
\* 'src for Erased<'src>, 'borrow for the borrow wrappers ('src: 'borrow).
Bound(self) == IF self.kind = "Erased" THEN self.src ELSE self.borrow

\* The wrapper types a wrapper coerces to by subtyping: each wrapper is
\* covariant in 'src (PhantomData<&'src ()>) and in 'borrow (&'borrow _), so
\* either region may be shortened, while 'src: 'borrow is kept.
Coercions(self, depth_) ==
    IF self.kind = "Erased"
    THEN {Erased(self.any, s) : s \in {r \in Regions : Outlives(self.src, r) /\ r <= depth_}}
    ELSE {[self EXCEPT !.src = s, !.borrow = b] :
            <<s, b>> \in {p \in Regions \X Regions :
                            /\ Outlives(self.src, p[1])
                            /\ Outlives(self.borrow, p[2])
                            /\ Outlives(p[1], p[2])
                            /\ p[2] <= depth_}}

\* ------------------------------------------------------------------- state
VARIABLES
    depth,      \* the caller's scope depth: regions 0..depth are live
    slot,       \* the caller's wrapper variable: the wrapper held, the value
                \* the caller put in it (by constructing it, or by a later
                \* write through inner_mut) and the borrow it was built from
    last        \* the last operation on the wrapper and its outcome, which
                \* the caller holds until the next operation or until the
                \* region of its type ends; `fails` counts the failed restores
                \* in a row, each applied to the wrapper the one before returned
VARIABLES
    view,       \* the caller's dyn Any<R> variable: the erased value and the
                \* transience R of the interface it is seen through
    dlast       \* the last operation on the dynamic interface and its outcome
VARIABLES
    gen         \* the generator: the declaration last derived and the output

wvars == <<depth, slot, last>>
avars == <<view, dlast>>
gvars == <<gen>>

EmptySlot == [w |-> NoWrapper, orig |-> NoValue, trueBorrow |-> STATIC]
NoResult == Err(NoWrapper)
NoOp ==
    [op |-> "none", target |-> NoType, before |-> EmptySlot, res |-> NoResult,
     tid |-> <<>>, flag |-> FALSE, fails |-> 0]

Held == slot.w # NoWrapper

WInit ==
    /\ depth = 0
    /\ slot = EmptySlot
    /\ last = NoOp

\* The region bounding the variable that holds what an operation on a wrapper
\* gave back: T at 'src from an Erased<'src>, &'borrow T or &'borrow mut T
\* from a borrow wrapper, the wrapper itself in an Err; each is the bound of
\* the wrapper the operation was called on.
ResultBound(l) == IF l.before.w # NoWrapper THEN Bound(l.before.w) ELSE STATIC

\* The caller opens a nested scope.
EnterScope ==
    /\ depth < MaxDepth
    /\ depth' = depth + 1
    /\ UNCHANGED <<slot, last, view, dlast, gen>>

\* The caller leaves its innermost scope: every variable whose type names the
\* region that ends is dead from here on.
ExitScope ==
    /\ depth > 0
    /\ depth' = depth - 1
    /\ slot' = IF Held /\ Bound(slot.w) >= depth THEN EmptySlot ELSE slot
    /\ last' = IF ResultBound(last) >= depth THEN NoOp ELSE last
    /\ UNCHANGED <<view, dlast, gen>>

\* let slot = Erased::new(value) / Erased::from_boxed(Box::new(value))
NewErased(value, boxed) ==
    /\ ~Held
    /\ value.rg <= depth
    /\ LET w == IF boxed THEN Erased_from_boxed(value) ELSE Erased_new(value)
       IN  /\ slot' = [w |-> w, orig |-> value, trueBorrow |-> value.rg]
           /\ last' = [NoOp EXCEPT !.op = "new"]
    /\ UNCHANGED <<depth, view, dlast, gen>>

\* let slot = ErasedRef::new(&value) / ErasedMut::new(&mut value), the borrow
\* lasting for the live region `borrow`, which the value's region outlives
NewBorrow(kind, value, borrow) ==
    /\ ~Held
    /\ Outlives(value.rg, borrow)
    /\ borrow <= depth
    /\ LET w == IF kind = "ErasedRef"
                THEN ErasedRef_new(value, borrow)
                ELSE ErasedMut_new(value, borrow)
       IN  /\ slot' = [w |-> w, orig |-> value, trueBorrow |-> borrow]
           /\ last' = [NoOp EXCEPT !.op = "new"]
    /\ UNCHANGED <<depth, view, dlast, gen>>

\* let slot = Erased::from(any) / ErasedRef::from(any) / ErasedMut::from(any),
\* for a dyn Any made by safe code (a 'static value)
FromAny(kind, value, borrow) ==
    /\ ~Held
    /\ value.rg = STATIC
    /\ borrow <= depth
    /\ kind = "Erased" => borrow = STATIC
    /\ LET w == CASE kind = "Erased" -> Erased_from(value)
                  [] kind = "ErasedRef" -> ErasedRef_from(value, borrow)
                  [] kind = "ErasedMut" -> ErasedMut_from(value, borrow)
       IN  /\ slot' = [w |-> w, orig |-> value, trueBorrow |-> borrow]
           /\ last' = [NoOp EXCEPT !.op = "from"]
    /\ UNCHANGED <<depth, view, dlast, gen>>

\* The caller passes the wrapper where a wrapper type with shorter regions is
\* expected (subtyping).
Coerce(w2) ==
    /\ Held
    /\ w2 \in Coercions(slot.w, depth)
    /\ w2 # slot.w
    /\ slot' = [slot EXCEPT !.w = w2]
    /\ last' = [NoOp EXCEPT !.op = "coerce", !.before = slot]
    /\ UNCHANGED <<depth, view, dlast, gen>>

\* slot.restore::<T>() (or slot.restore_box::<T>() on an Erased), T being the
\* type named `name` at the wrapper's 'src.  The call moves the wrapper out of
\* the caller's variable, unless the wrapper is Copy (ErasedRef derives Clone
\* and Copy): then the call takes a copy and the variable stays usable.
Restore(name, boxed) ==
    /\ Held
    /\ MakeStaticImpl(name, slot.w.src)
    /\ boxed => slot.w.kind = "Erased"
    /\ LET self == slot.w
           T == [name |-> name, rg |-> self.src]
           r == IF boxed THEN Erased_restore_box(self, T) ELSE restore(self, T)
           chained == last.op = "restore" /\ ~last.res.ok
           n == IF chained THEN last.fails ELSE 0
       IN  /\ last' = [NoOp EXCEPT !.op = "restore", !.target = T, !.before = slot,
                                   !.res = r,
                                   !.fails = IF r.ok \/ n = MaxFails THEN n ELSE n + 1]
           /\ slot' = IF r.ok \/ r.panic
                      THEN IF IsCopy(self) THEN slot ELSE EmptySlot
                      ELSE [slot EXCEPT !.w = r.w]
    /\ UNCHANGED <<depth, view, dlast, gen>>

\* slot.type_id()
TypeId ==
    /\ Held
    /\ last' = [NoOp EXCEPT !.op = "type_id", !.before = slot, !.tid = type_id(slot.w)]
    /\ UNCHANGED <<depth, slot, view, dlast, gen>>

\* slot.is::<T>()
Is(name) ==
    /\ Held
    /\ MakeStaticImpl(name, slot.w.src)
    /\ LET T == [name |-> name, rg |-> slot.w.src]
       IN  last' = [NoOp EXCEPT !.op = "is", !.target = T, !.before = slot,
                                !.flag = is(slot.w, T)]
    /\ UNCHANGED <<depth, slot, view, dlast, gen>>

\* slot.inner()
Inner ==
    /\ Held
    /\ HasInner(slot.w)
    /\ last' = [NoOp EXCEPT !.op = "inner", !.before = slot,
                            !.res = Ok(inner(slot.w), "dynref")]
    /\ UNCHANGED <<depth, slot, view, dlast, gen>>

\* slot.inner_mut(), the caller writing `data` through downcast_mut
InnerMut(data) ==
    /\ Held
    /\ HasInnerMut(slot.w)
    /\ last' = [NoOp EXCEPT !.op = "inner_mut", !.before = slot,
                            !.res = Ok(inner(slot.w), "dynref")]
    /\ slot' = [slot EXCEPT !.w.any.data = data, !.orig.data = data]
    /\ UNCHANGED <<depth, view, dlast, gen>>

\* slot.into_inner()
IntoInner ==
    /\ Held
    /\ HasIntoInner(slot.w)
    /\ last' = [NoOp EXCEPT !.op = "into_inner", !.before = slot,
                            !.res = Ok(into_inner(slot.w), "dyn")]
    /\ slot' = EmptySlot
    /\ UNCHANGED <<depth, view, dlast, gen>>

\* drop(slot)
Drop ==
    /\ Held
    /\ slot' = EmptySlot
    /\ last' = NoOp
    /\ UNCHANGED <<depth, view, dlast, gen>>

WNext ==
    \/ EnterScope
    \/ ExitScope
    \/ \E value \in Values, boxed \in BOOLEAN : NewErased(value, boxed)
    \/ \E kind \in {"ErasedRef", "ErasedMut"}, value \in Values, b \in Regions :
          NewBorrow(kind, value, b)
    \/ \E kind \in {"Erased", "ErasedRef", "ErasedMut"}, value \in Values, b \in Regions :
          FromAny(kind, value, b)
    \/ \E w2 \in Coercions(slot.w, depth) : Coerce(w2)
    \/ \E name \in TypeNames, boxed \in BOOLEAN : Restore(name, boxed)
    \/ TypeId
    \/ \E name \in TypeNames : Is(name)
    \/ Inner
    \/ \E data \in Data : InnerMut(data)
    \/ IntoInner
    \/ Drop

\* ------------------------------------------------------- the dynamic interface
\* The erasable types of tests.rs: basic::S<'a>, generics::SS<'a> = S<'a,
\* String> and mixed_lifetimes::M<'s, 'l>.
AnyTypeNames == {"S", "SS", "M"}
Variances == {"Co", "Inv", "Contra"}

\* type Transience = Co<'a> / Inv<'a> / (Contra<'s>, Co<'l>): the variance of
\* each lifetime parameter of the declaration
Transience(name) ==
    CASE name = "S" -> <<"Co">>
      [] name = "SS" -> <<"Inv">>
      [] name = "M" -> <<"Contra", "Co">>

Arity(name) == Len(Transience(name))

\* A type of the dynamic interface: a name and the regions of its lifetime
\* parameters; a value: a type and its data.
ATypes == UNION {[name : {n}, rgs : [1..Arity(n) -> Regions]] : n \in AnyTypeNames}
AValues == UNION {[name : {n}, rgs : [1..Arity(n) -> Regions], data : Data] : n \in AnyTypeNames}
ATypeOf(v) == [name |-> v.name, rgs |-> v.rgs]

\* A Static that keeps the regions of T.
Transient_Static_keeps_regions(T) == T

\* type Static = S<'static> / S<'static, T> / M<'static, 'static>
Transient_Static(T) == [T EXCEPT !.rgs = [k \in DOMAIN T.rgs |-> STATIC]]

\* TypeId::of::<T>() of the dynamic interface's types
ATypeIdOf(T) == <<T.name, T.rgs>>

\* <T as Transient>::Transience at the regions of T: Co<'a>, (Contra<'s>, Co<'l>)
TransienceOf(T) ==
    [k \in DOMAIN T.rgs |-> [v |-> Transience(T.name)[k], rg |-> T.rgs[k]]]

\* type ContraCo<'s, 'l> = (Contra<'s>, Co<'l>)
ContraCo(s, l) == <<[v |-> "Contra", rg |-> s], [v |-> "Co", rg |-> l]>>

\* The transiences R of the interfaces dyn Any<R> a value of the declaration
\* is offered to: Co<'r>, Inv<'r> or Contra<'r> for a declaration with one
\* lifetime parameter, ContraCo<'s, 'l> for M.
Tags(name) ==
    IF name = "M"
    THEN {ContraCo(r[1], r[2]) : r \in Regions \X Regions}
    ELSE [1..1 -> [v : Variances, rg : Regions]]

\* May a parameter declared `own` be seen through an interface requiring `req`?
\* Co<'a> stands in where Co<'b> is required if 'a: 'b, Contra<'a> where
\* Contra<'b> is required if 'b: 'a, and either where Inv<'a> is required;
\* Inv<'a> only where Inv<'a> is required.
SubTransience(own, req) ==
    CASE own.v = "Co" -> \/ req.v = "Co" /\ Outlives(own.rg, req.rg)
                         \/ req.v = "Inv" /\ own.rg = req.rg
      [] own.v = "Contra" -> \/ req.v = "Contra" /\ Outlives(req.rg, own.rg)
                             \/ req.v = "Inv" /\ own.rg = req.rg
      [] own.v = "Inv" -> req.v = "Inv" /\ own.rg = req.rg

\* T::Transience: CanTranscendTo<R>, a tuple parameter by parameter
CanTranscendTo(X, R) ==
    /\ Len(X) = Len(R)
    /\ \A k \in DOMAIN X : SubTransience(X[k], R[k])

NoAValue == [name |-> "none", rgs |-> <<>>, data |-> 0]
NoAType == [name |-> "none", rgs |-> <<>>]
NoView == [any |-> NoAValue, R |-> <<>>, form |-> "none", orig |-> NoAValue]

\* value as Box<dyn Any<R>> / &dyn Any<R> / &mut dyn Any<R>: the value is
\* stored at its Static type
erase(value, R, form) ==
    [any |-> [value EXCEPT !.rgs = Transient_Static(ATypeOf(value)).rgs],
     R |-> R, form |-> form, orig |-> value]

\* <dyn Any<R>>::type_id(&self)
dyn_type_id(self) == ATypeIdOf(ATypeOf(self.any))

\* <dyn Any<R>>::is::<T>(&self)
dyn_is(self, T) == dyn_type_id(self) = ATypeIdOf(Transient_Static(T))

\* A downcast without the check of the type tag.
downcast_unchecked(self, T) ==
    [ok |-> TRUE, val |-> [self.any EXCEPT !.rgs = T.rgs]]

\* <dyn Any<R>>::downcast::<T>() / downcast_ref / downcast_mut
downcast(self, T) ==
    IF dyn_is(self, T)
    THEN [ok |-> TRUE, val |-> [self.any EXCEPT !.rgs = T.rgs]]
    ELSE [ok |-> FALSE, val |-> NoAValue]

\* The lengthen of tests.rs with its Co parameter lengthened too.
lengthen_both(short) == ContraCo(short.rgs[2], STATIC)

\* fn lengthen<'b, 'short, 'long: 'short>(short: &'b M<'short, 'long>)
\*     -> &'b dyn Any<ContraCo<'long, 'short>>: the transience of the result
lengthen(short) == ContraCo(short.rgs[2], short.rgs[1])

\* fn requires_static(_value: &dyn Any<ContraCo<'static, '_>>): the transience
\* it requires, '_ being region l
requires_static(l) == ContraCo(STATIC, l)

NoDOp ==
    [op |-> "none", orig |-> NoAValue, R |-> <<>>, accepted |-> FALSE,
     before |-> NoView, target |-> NoAType, ok |-> FALSE, val |-> NoAValue, tid |-> <<>>]

AInit ==
    /\ view = NoView
    /\ dlast = NoDOp

\* The caller erases value to the dynamic interface dyn Any<R>, as a Box, a
\* shared or a mutable reference; the compiler accepts or rejects the coercion,
\* and a rejected program has no view.
Erase(value, R, form) ==
    LET accepted == CanTranscendTo(TransienceOf(ATypeOf(value)), R)
    IN  /\ dlast' = [NoDOp EXCEPT !.op = "erase", !.orig = value, !.R = R,
                                  !.accepted = accepted]
        /\ view' = IF accepted THEN erase(value, R, form) ELSE NoView
        /\ UNCHANGED <<wvars, gvars>>

\* lengthen(&short), `short` an M<'short, 'long> with 'long: 'short
Lengthen(short) ==
    /\ short.name = "M"
    /\ Outlives(short.rgs[2], short.rgs[1])
    /\ dlast' = [NoDOp EXCEPT !.op = "lengthen", !.orig = short, !.R = lengthen(short),
                              !.accepted = TRUE]
    /\ view' = erase(short, lengthen(short), "ref")
    /\ UNCHANGED <<wvars, gvars>>

\* requires_static(&*erased_short), erased_short a Box of `short`: M<'_, 'static>
RequiresStatic(short, l) ==
    /\ short.name = "M"
    /\ short.rgs[2] = STATIC
    /\ dlast' = [NoDOp EXCEPT !.op = "requires_static", !.orig = short,
                              !.R = requires_static(l), !.accepted = TRUE]
    /\ view' = erase(short, requires_static(l), "box")
    /\ UNCHANGED <<wvars, gvars>>

\* view.downcast::<T>() (downcast_ref, downcast_mut), T the declaration `name`
\* at the regions of the interface
Downcast(name) ==
    /\ view # NoView
    /\ Arity(name) = Len(view.R)
    /\ LET T == [name |-> name, rgs |-> [k \in DOMAIN view.R |-> view.R[k].rg]]
           r == downcast(view, T)
       IN  /\ dlast' = [NoDOp EXCEPT !.op = "downcast", !.before = view, !.target = T,
                                     !.ok = r.ok, !.val = r.val]
           /\ view' = IF r.ok /\ view.form = "box" THEN NoView ELSE view
    /\ UNCHANGED <<wvars, gvars>>

\* view.type_id()
DynTypeId ==
    /\ view # NoView
    /\ dlast' = [NoDOp EXCEPT !.op = "type_id", !.before = view, !.tid = dyn_type_id(view)]
    /\ UNCHANGED <<view, wvars, gvars>>

ANext ==
    \/ \E value \in AValues, form \in {"box", "ref", "mut"} :
          \E R \in Tags(value.name) : Erase(value, R, form)
    \/ \E short \in AValues : Lengthen(short)
    \/ \E short \in AValues, l \in Regions : RequiresStatic(short, l)
    \/ \E name \in AnyTypeNames : Downcast(name)
    \/ DynTypeId

\* ------------------------------------------------------------- the generator
MaxParams == 4

ParamKinds == {"lifetime", "type", "const"}

\* The declarations: the kinds of the generic parameters, in order.
Decls == UNION {[1..n -> ParamKinds] : n \in 0..MaxParams}

\* input.generics: parameter k is named (and located) by its position k; a
\* lifetime is named by the position of its parameter, 'static by STATIC.
Generics(decl) == [k \in DOMAIN decl |-> [kind |-> decl[k], id |-> k, bounds |-> {}]]

\* fn static_type_bound(), static_param(), static_lifetime(), no_generics()
static_type_bound == "'static"
static_param == [kind |-> "lifetime", id |-> STATIC, bounds |-> {}]
static_lifetime == STATIC
no_generics == <<>>

\* Params::new and Params::empty
Params_new(lifetime, original, impl_, static_) ==
    [lifetime |-> lifetime, original |-> original, impl_ |-> impl_, static_ |-> static_]
Params_empty == Params_new(static_lifetime, no_generics, no_generics, no_generics)

GenOk(value) == [ok |-> TRUE, value |-> value, span |-> 0, msg |-> ""]
GenErr(span, msg) == [ok |-> FALSE, value |-> <<>>, span |-> span, msg |-> msg]

\* process_param without `ty.bounds.push(static_type_bound())`
process_param_unbounded(param) ==
    CASE param.kind = "lifetime" ->
            GenErr(param.id, "At most one lifetime parameter is allowed!")
      [] OTHER -> GenOk(param)

\* fn process_param(param: &mut GenericParam) -> Result<()>: the parameter as
\* the call leaves it
process_param(param) ==
    CASE param.kind = "lifetime" ->
            GenErr(param.id, "At most one lifetime parameter is allowed!")
      [] param.kind = "type" ->
            GenOk([param EXCEPT !.bounds = @ \cup {static_type_bound}])
      [] OTHER -> GenOk(param)

\* The loop `for param in params_iter` of process_generics from parameter k on
RECURSIVE process_remaining(_, _, _, _)
process_remaining(generics, k, impl_generics, static_generics) ==
    IF k > Len(generics)
    THEN GenOk([impl_ |-> impl_generics, static_ |-> static_generics])
    ELSE LET r == process_param(generics[k])
         IN  IF ~r.ok
             THEN r
             ELSE process_remaining(generics, k + 1, Append(impl_generics, r.value),
                                    Append(static_generics, generics[k]))

\* fn process_generics(generics: Generics) -> Result<Params>
process_generics(generics) ==
    IF generics = <<>>
    THEN GenOk(Params_empty)
    ELSE LET first == generics[1]
             lifetime == IF first.kind = "lifetime" THEN first.id ELSE static_lifetime
             static1 == IF first.kind = "lifetime" THEN static_param ELSE first
             impl1 == IF first.kind = "type"
                      THEN [first EXCEPT !.bounds = @ \cup {static_type_bound}]
                      ELSE first
             r == process_remaining(generics, 2, <<impl1>>, <<static1>>)
         IN  IF ~r.ok
             THEN r
             ELSE GenOk(Params_new(lifetime, generics, r.value.impl_, r.value.static_))

\* Generics::split_for_impl().1: the names of the parameters, without bounds
type_generics(generics) == [k \in DOMAIN generics |-> generics[k].id]

\* fn generate_impl(input: DeriveInput) -> Result<TokenStream2>:
\* unsafe impl #impl_generics MakeStatic<#lifetime> for #name #ty_generics
\*     { type Static = #name #static_ty_generics; }
generate_impl(input) ==
    LET r == process_generics(input)
    IN  IF ~r.ok
        THEN r
        ELSE GenOk([impl_generics |-> r.value.impl_,
                    lifetime |-> r.value.lifetime,
                    ty_generics |-> type_generics(r.value.original),
                    static_ty_generics |-> type_generics(r.value.static_)])

\* pub fn derive_make_static(input: TokenStream) -> TokenStream: the impl, or
\* the compile error at the span of the generation error
derive_make_static(decl) == generate_impl(Generics(decl))

NoGen == [derived |-> FALSE, decl |-> <<>>, out |-> GenErr(0, "")]

GInit == gen = NoGen

\* #[derive(MakeStatic)] on a declaration with the generic parameters `decl`
Derive(decl) ==
    /\ gen' = [derived |-> TRUE, decl |-> decl, out |-> derive_make_static(decl)]
    /\ UNCHANGED <<wvars, avars>>

GNext == \E decl \in Decls : Derive(decl)

\* ------------------------------------------------------- the specifications
vars == <<depth, slot, last, view, dlast, gen>>
Init == WInit /\ AInit /\ GInit

\* the life of a wrapper of erased.rs
Next == WNext
Spec == Init /\ [][Next]_vars

\* the dynamic interface dyn Any<R>
SpecAny == Init /\ [][ANext]_vars

\* the derive generator
SpecGen == Init /\ [][GNext]_vars

\* ------------------------------------------------------------ the wrappers' claims
IsRestore == last.op = "restore"
\* the type the wrapper's value was erased at
TrueType(st) == TypeOf(st.orig)

\* C1: Round-trip.  A restore to the very type T the wrapper was constructed
\* from (same declaration, same region) succeeds and returns a value equal to
\* the one erased, whichever wrapper (Erased via restore or restore_box,
\* ErasedRef, ErasedMut) and whichever constructor was used.
C1_RoundTrip ==
    (IsRestore /\ last.target = TrueType(last.before))
        => /\ last.res.ok
           /\ last.res.val = last.before.orig

C1_Witness ==
    /\ IsRestore
    /\ last.target = TrueType(last.before)
    /\ last.before.w.kind = "ErasedMut"
    /\ last.before.orig.rg # STATIC
    /\ last.res.ok

\* C2: Type discrimination.  A restore::<U> with Static(U) different from
\* Static(T) returns Err carrying a wrapper with the same payload and the same
\* type tag (the wrapper as it was), the caller holds that wrapper again, and
\* is::<U>() on it is false.
C2_TypeDiscrimination ==
    (IsRestore /\ Static(last.target) # Static(TrueType(last.before)))
        => /\ ~last.res.ok
           /\ ~last.res.panic
           /\ last.res.w = last.before.w
           /\ last.res.w.any = last.before.w.any
           /\ type_id(last.res.w) = type_id(last.before.w)
           /\ ~is(last.res.w, last.target)
           /\ slot.w = last.res.w

C2_Witness ==
    /\ IsRestore
    /\ Static(last.target) # Static(TrueType(last.before))
    /\ last.before.w.kind = "ErasedMut"
    /\ ~last.res.ok
    /\ last.res.w # NoWrapper

\* C3: No-loss-on-failure.  A failed restore leaves the caller holding a wrapper
\* with the payload it had, and after a run of failed restores, each on the
\* wrapper the one before returned, a restore to the type T the value was
\* erased at succeeds and yields the erased value.
C3_NoLossOnFailure ==
    /\ (IsRestore /\ ~last.res.ok)
          => /\ Held
             /\ slot.w.any = last.before.w.any
             /\ slot.orig = last.before.orig
    /\ (IsRestore /\ last.fails >= 1 /\ last.target = TrueType(last.before))
          => /\ last.res.ok
             /\ last.res.val = last.before.orig

C3_Witness ==
    /\ IsRestore
    /\ last.fails = MaxFails
    /\ last.target = TrueType(last.before)
    /\ last.before.w.kind = "Erased"
    /\ last.before.orig.rg # STATIC
    /\ last.res.ok

\* C4: Payload-access invariant.  The caller gets at the payload only by a
\* restore whose requested type's Static tag matched the stored tag, or through
\* inner / inner_mut / into_inner, which exist only on wrappers whose true
\* region is 'static; a wrapper with a bounded true region has none of the
\* three, and nothing it returns is the value at the (false) 'static region.
C4_PayloadAccess ==
    /\ (IsRestore /\ last.res.ok)
          => type_id(last.before.w) = TypeIdOf(Static(last.target))
    /\ last.op \in {"inner", "inner_mut", "into_inner"}
          => last.before.orig.rg = STATIC
    /\ (Held /\ slot.orig.rg # STATIC)
          => ~(HasInner(slot.w) \/ HasInnerMut(slot.w) \/ HasIntoInner(slot.w))
    /\ (last.res.ok /\ last.before.orig.rg # STATIC)
          => last.res.val.rg # STATIC

C4_Witness ==
    /\ last.op = "inner_mut"
    /\ last.before.w.kind = "ErasedMut"
    /\ last.before.trueBorrow # STATIC
    /\ last.res.ok

\* C5: Restored region is the true region.  A successful restore returns the
\* value at exactly the region it was erased at, whatever coercions of the
\* wrapper's type came before.
C5_RestoredRegionIsTrue ==
    (IsRestore /\ last.res.ok) => last.res.val.rg = last.before.orig.rg

NewLike(self, v) ==
    CASE self.kind = "Erased" -> Erased_new(v)
      [] self.kind = "ErasedRef" -> ErasedRef_new(v, self.borrow)
      [] self.kind = "ErasedMut" -> ErasedMut_new(v, self.borrow)

\* The target types (by name, at the wrapper's 'src) that is / restore accept.
IsTargets(self) ==
    {name \in TypeNames : /\ MakeStaticImpl(name, self.src)
                          /\ is(self, [name |-> name, rg |-> self.src])}
RestoreTargets(self) ==
    {name \in TypeNames : /\ MakeStaticImpl(name, self.src)
                          /\ restore(self, [name |-> name, rg |-> self.src]).ok}

\* C7: Tag blindness to region.  The wrapper held and a wrapper built from a
\* value of the same declaration at any other true region have equal
\* type_id() results, and is / restore accept the same target types for both.
C7_TagBlindness ==
    Held => \A v \in Values :
               (v.name = slot.orig.name /\ v.rg # slot.orig.rg /\ Outlives(v.rg, slot.w.borrow))
                  => LET other == NewLike(slot.w, v)
                     IN  /\ type_id(other) = type_id(slot.w)
                         /\ last.op = "type_id" => type_id(other) = last.tid
                         /\ IsTargets(other) = IsTargets(slot.w)
                         /\ RestoreTargets(other) = RestoreTargets(slot.w)
                         /\ IsTargets(other) = {v.name}

C7_Witness ==
    /\ Held
    /\ slot.orig.rg # STATIC
    /\ slot.w.src = slot.orig.rg
    /\ last.op = "type_id"
    /\ last.tid = TypeIdOf(Static(TrueType(slot)))

\* ------------------------------------------------ the dynamic interface's claims
IsDowncast == dlast.op = "downcast"

Shorter(a, b) == Outlives(b, a) /\ a # b

\* The verdict on offering a value to an interface
IsOffer == dlast.op \in {"erase", "lengthen", "requires_static"}

LifetimesOf(decl) == {k \in DOMAIN decl : decl[k] = "lifetime"}

\* C10: the generator accepts a declaration exactly when it has at most one
\* lifetime parameter, wherever that parameter stands; a rejection is located
\* at an extra lifetime parameter and emits no mapping.
C10_AcceptsIffAtMostOneLifetime ==
    gen.derived
        => /\ gen.out.ok <=> Cardinality(LifetimesOf(gen.decl)) <= 1
           /\ ~gen.out.ok => /\ gen.out.span \in LifetimesOf(gen.decl)
                             /\ \E k \in LifetimesOf(gen.decl) : k < gen.out.span
                             /\ gen.out.value = <<>>

\* the positions of the type parameters of a declaration
TypeParamsOf(decl) == {k \in DOMAIN decl : decl[k] = "type"}

\* Params of an accepted declaration: what generate_impl prints from
GenParams == process_generics(Generics(gen.decl)).value

\* the Static counterpart's parameter list as the claim gives it: the original
\* list, the region parameter (if any) replaced by 'static
StaticListOf(decl) ==
    [k \in DOMAIN decl |-> IF decl[k] = "lifetime" THEN STATIC ELSE k]

\* C11 as stated: for every type parameter of an accepted declaration the
\* 'static constraint is added both in the implementation header's parameter
\* list and in the original-type reference (the generics #ty_generics and
\* #where_clause are printed from); the Static counterpart's list is the
\* original list with the region parameter replaced by 'static; a declaration
\* without generic parameters yields the identity mapping with region 'static.
C11_AsClaimed ==
    (gen.derived /\ gen.out.ok)
        => /\ \A k \in TypeParamsOf(gen.decl) :
                 /\ static_type_bound \in gen.out.value.impl_generics[k].bounds
                 /\ static_type_bound \in GenParams.original[k].bounds
           /\ gen.out.value.static_ty_generics = StaticListOf(gen.decl)
           /\ gen.decl = <<>> => /\ gen.out.value.lifetime = STATIC
                                 /\ gen.out.value.static_ty_generics = gen.out.value.ty_generics

\* C11 (amended): for every type parameter of an accepted declaration, first
\* or later, the 'static constraint is added in the implementation header's
\* parameter list and only there: the other parameters of the header keep
\* their constraints, and the original-type reference names the parameters of
\* the declaration in order, printed from the declaration's generics as they
\* were written, without the added constraint.  The Static counterpart's list
\* is the original list with the region parameter (if any) replaced by
\* 'static and the other parameters kept in order, without the added
\* constraint; the region of the mapping is the declaration's region parameter,
\* or 'static without one; and a declaration without generic parameters yields
\* the identity mapping with region 'static.
C11_StaticBoundInHeaderOnly ==
    (gen.derived /\ gen.out.ok)
        => LET out == gen.out.value
               n == Len(gen.decl)
           IN  /\ Len(out.impl_generics) = n
               /\ \A k \in 1..n :
                     /\ out.impl_generics[k].kind = gen.decl[k]
                     /\ out.impl_generics[k].id = k
                     /\ out.impl_generics[k].bounds =
                           IF gen.decl[k] = "type" THEN {static_type_bound} ELSE {}
               /\ GenParams.original = Generics(gen.decl)
               /\ \A k \in TypeParamsOf(gen.decl) : GenParams.original[k].bounds = {}
               /\ out.ty_generics = [k \in 1..n |-> k]
               /\ out.static_ty_generics = StaticListOf(gen.decl)
               /\ \A k \in 1..n : GenParams.static_[k].bounds = {}
               /\ out.lifetime = IF LifetimesOf(gen.decl) = {} THEN STATIC ELSE 1
               /\ gen.decl = <<>> => /\ out.lifetime = STATIC
                                     /\ out.impl_generics = <<>>
                                     /\ out.static_ty_generics = out.ty_generics

C11_Witness ==
    /\ gen.derived
    /\ gen.out.ok
    /\ Len(gen.decl) >= 3
    /\ gen.decl[1] = "lifetime"
    /\ gen.decl[2] = "type"
    /\ gen.decl[3] = "const"
    /\ gen.out.value.impl_generics[2].bounds = {static_type_bound}
    /\ gen.out.value.static_ty_generics[1] = STATIC

\* ------------------------------------------------------ the wrappers' lifecycle
IsProbe == last.op \in {"type_id", "is"}

\* what a probe recorded is what the same probe answers on the wrapper now held
ProbeStands ==
    /\ last.op = "type_id" => last.tid = type_id(slot.w)
    /\ last.op = "is" => last.flag = is(slot.w, last.target)

\* C12 as stated: type_id() and is::<T>() leave the wrapper as it was, and a
\* restore attempt consumes the wrapper it is called on, for Erased, ErasedRef
\* and ErasedMut alike: after a successful restore the caller holds no wrapper,
\* only the recovered value, and after a rejected one the wrapper the Err
\* carries.
C12_AsClaimed ==
    /\ IsProbe => (Held /\ slot = last.before /\ ProbeStands)
    /\ (IsRestore /\ last.res.ok) => ~Held
    /\ (IsRestore /\ ~last.res.ok) => (Held /\ slot.w = last.res.w)

\* C12 (amended): type_id() and is::<T>() leave the wrapper (payload, tag,
\* regions) as it was and a later probe answers the same; a restore attempt on
\* an Erased or an ErasedMut consumes the wrapper, so that afterwards the
\* caller holds the recovered value and no wrapper (success) or the unchanged
\* wrapper the Err carries (rejection); ErasedRef is Copy, so a restore
\* attempt takes a copy of it and the caller still holds the wrapper,
\* unchanged and usable, after a success as after a rejection, next to the
\* recovered reference or the equal wrapper the Err carries.
C12_Lifecycle ==
    /\ IsProbe => (Held /\ slot = last.before /\ ProbeStands)
    /\ (IsRestore /\ last.res.ok /\ last.before.w.kind \in {"Erased", "ErasedMut"})
          => /\ ~Held
             /\ last.res.val = from_static(last.target, last.before.w.any)
    /\ (IsRestore /\ last.res.ok /\ last.before.w.kind = "ErasedRef")
          => /\ Held
             /\ slot = last.before
             /\ restore(slot.w, last.target) = last.res
    /\ (IsRestore /\ ~last.res.ok)
          => /\ Held
             /\ slot.w = last.res.w
             /\ slot = last.before
    /\ Held => (IsCopy(slot.w) <=> slot.w.kind = "ErasedRef")

C12_Witness ==
    /\ IsRestore
    /\ last.res.ok
    /\ last.before.w.kind = "ErasedRef"
    /\ last.before.orig.rg # STATIC
    /\ Held
    /\ slot = last.before

\* ------------------------------------------------- restore and the probes agree
\* the target types T: MakeStatic<'src> a wrapper can be asked about
TargetsOf(self) ==
    {T \in Types : T.rg = self.src /\ MakeStaticImpl(T.name, self.src)}

\* one of the two branches, and not a fault
WellDefined(r, self) ==
    /\ ~r.panic
    /\ r.ok => (r.val # NoValue /\ r.w = NoWrapper)
    /\ ~r.ok => (r.w = self /\ r.val = NoValue)

\* C13: Restore is total and agrees with the probes.  For Erased (restore and
\* restore_box), ErasedRef and ErasedMut and every target type T, restore::<T>()
\* returns Ok exactly when is::<T>() is true on that wrapper, which is exactly
\* when type_id() equals the tag of Static(T), and otherwise returns Err with
\* the wrapper; no restore faults: the unwrap of downcast_mut in
\* ErasedMut::restore is never reached with a mismatching tag.
C13_RestoreAgreesWithProbes ==
    /\ ~last.res.panic
    /\ IsRestore
          => /\ WellDefined(last.res, last.before.w)
             /\ last.res.ok <=> is(last.before.w, last.target)
             /\ last.res.ok <=> type_id(last.before.w) = TypeIdOf(Static(last.target))
    /\ last.op = "is"
          => (last.flag <=> type_id(last.before.w) = TypeIdOf(Static(last.target)))
    /\ Held
          => \A T \in TargetsOf(slot.w) :
                /\ WellDefined(restore(slot.w, T), slot.w)
                /\ restore(slot.w, T).ok <=> is(slot.w, T)
                /\ is(slot.w, T) <=> type_id(slot.w) = TypeIdOf(Static(T))
                /\ slot.w.kind = "Erased"
                      => /\ WellDefined(Erased_restore_box(slot.w, T), slot.w)
                         /\ Erased_restore_box(slot.w, T).ok <=> is(slot.w, T)

C13_Witness ==
    /\ IsRestore
    /\ last.before.w.kind = "ErasedMut"
    /\ last.before.orig.rg # STATIC
    /\ ~is(last.before.w, last.target)
    /\ type_id(last.before.w) # TypeIdOf(Static(last.target))
    /\ last.res = Err(last.before.w)
    /\ last.fails >= 1

====
